---- MODULE Spec2Model ----
(***************************************************************************)
(* Model of the segment-anything daemon                                    *)
(* (src/plugins/segment-anything/main.py): one accepted connection, a      *)
(* text buffer that is split on newlines, a dispatcher over the decoded    *)
(* command, and shared-memory segments opened by name.                     *)
(*                                                                         *)
(* Bytes on the wire are abstract symbols.  A command record is the three  *)
(* symbols  "{" body "}"  followed by "\n"; the body symbol stands for the *)
(* members of the JSON object and is decoded through the table Members.    *)
(***************************************************************************)
EXTENDS Integers, Sequences, FiniteSets, TLC

\* ------------------------------------------------------------------ bounds
\* number of records the host writes on the connection in one behaviour
MaxSend == 2

\* ------------------------------------------------------- wire and segments
LF == "\n"

\* names of shared-memory segments the host may create
Names == {"a", "b"}

\* marker for a name with no segment behind it
NoSeg == -1

\* a dimension value numpy rejects (negative or not an integer)
BadDim == -1

\* the members of the JSON object each body symbol stands for
Members ==
       "si11a" :> [action |-> "set_image", width |-> 1, height |-> 1, shm_name |-> "a"]
    @@ "si21a" :> [action |-> "set_image", width |-> 2, height |-> 1, shm_name |-> "a"]
    @@ "si11b" :> [action |-> "set_image", width |-> 1, height |-> 1, shm_name |-> "b"]
    @@ "si00a" :> [action |-> "set_image", width |-> 0, height |-> 0, shm_name |-> "a"]
    @@ "si2"   :> [action |-> "set_image", width |-> 2, shm_name |-> "a"]
    @@ "siX1a" :> [action |-> "set_image", width |-> BadDim, height |-> 1, shm_name |-> "a"]
    @@ "clb"   :> [action |-> "click", x |-> 0, y |-> 0, shm_name |-> "b"]
    @@ "cl"    :> [action |-> "click", x |-> 0, y |-> 0]
    @@ "clyb"  :> [action |-> "click", y |-> 0, shm_name |-> "b"]
    @@ "zoom"  :> [action |-> "zoom"]

Bodies == DOMAIN Members

\* a record whose body is b
Rec(b) == <<"{", b, "}">>

\* the records the host may write (each is followed by LF on the wire)
Records ==
    {Rec(b) : b \in Bodies}
        \cup { <<"[]">>,            \* JSON text that is not an object
               <<"{">>,             \* text that is not JSON
               <<"xC3", "xA9">>,    \* one two-byte UTF-8 character
               <<"xFF">>,           \* a byte that is not UTF-8
               <<>> }               \* the empty record

\* segment "a" of size sa and segment "b" of size sb
Segs(sa, sb) == [n \in Names |-> IF n = "a" THEN sa ELSE sb]

\* the sessions explored: the records the host writes in one of them and
\* the segments it has created
Scenarios ==
    {[menu |-> {Rec("si11a"), <<"{">>, <<>>}, segs |-> Segs(8, 2)]}
        \cup {[menu |-> {<<"[]">>, <<"xC3", "xA9">>, <<"xFF">>, Rec("zoom")},
               segs |-> Segs(8, 2)]}
        \cup {[menu |-> {Rec("si11a"), Rec("si21a"), Rec("clb")}, segs |-> sg] :
                  sg \in {Segs(8, 2), Segs(8, 1), Segs(4, 2), Segs(4, 1),
                          Segs(NoSeg, 2), Segs(8, NoSeg)}}
        \cup {[menu |-> {Rec("si11a"), Rec("si2"), Rec("siX1a"), Rec("clb")},
               segs |-> Segs(8, 2)]}
        \cup {[menu |-> {Rec("si11a"), Rec("cl"), Rec("clyb")}, segs |-> Segs(8, 2)]}
        \cup {[menu |-> {Rec("si11a"), Rec("si11b"), Rec("clb")}, segs |-> Segs(8, NoSeg)]}
        \cup {[menu |-> {Rec("si00a"), Rec("si11a"), Rec("clb")}, segs |-> sg] :
                  sg \in {Segs(0, 2), Segs(8, 0)}}

\* ----------------------------------------------------------------- state
VARIABLES
    pc,            \* "serving" while in the recv loop, "exited" afterwards
    exit,          \* why the loop ended: "none", "eof", "transport", "crash"
    wire,          \* bytes written by the host, not yet returned by recv
    sent,          \* number of records the host has written
    menu,          \* the records the host writes in this session
    buffer,        \* text received and not yet split off
    line,          \* the local `line` (Unbound before its first assignment)
    curr_img_w,
    curr_img_h,
    features,      \* predictor.features: <<>> for None, else <<h, w>>
    shm,           \* mapping held by the local `shm`: a name, or Closed
    m_shm,         \* mapping held by the local `m_shm`: a name, or Closed
    registered,    \* names registered with the resource tracker
    segs,          \* existing segments: name -> size, or NoSeg
    out,           \* replies written while handling the last chunk
    disp,          \* lines handed to the dispatcher for the last chunk
    opened,        \* segments opened while handling the last chunk
    calls,         \* adapter calls made while handling the last chunk
    written,       \* bytes written to the mask segment for the last chunk
    adapterOk,     \* whether the adapter succeeded for the last chunk
    nReplies,      \* replies written on the connection so far
    nRecords,      \* complete non-empty records received so far
    values,        \* byte values written to the mask segment for the last chunk
    hin,           \* the arguments and files a one-shot helper is run with
    hout           \* what that helper did

vars == <<pc, exit, wire, sent, menu, buffer, line, curr_img_w, curr_img_h,
          features, shm, m_shm, registered, segs, out, disp, opened, calls,
          written, adapterOk, nReplies, nRecords, values, hin, hout>>

Unbound == <<"<unbound>">>
Closed == "closed"
None == <<>>

\* ------------------------------------------------------------- decoding
\* data.decode("utf-8"), strict: fails on a byte that is not UTF-8 and on
\* a multi-byte character that is not complete inside the chunk
RECURSIVE Utf8Valid(_)
Utf8Valid(bytes) ==
    IF bytes = <<>> THEN TRUE
    ELSE IF Head(bytes) = "xFF" \/ Head(bytes) = "xA9" THEN FALSE
    ELSE IF Head(bytes) = "xC3"
         THEN /\ Len(bytes) >= 2
              /\ bytes[2] = "xA9"
              /\ Utf8Valid(Tail(Tail(bytes)))
    ELSE Utf8Valid(Tail(bytes))

\* the text of a chunk that is valid UTF-8
RECURSIVE Utf8Text(_)
Utf8Text(bytes) ==
    IF bytes = <<>> THEN <<>>
    ELSE IF Head(bytes) = "xC3" THEN <<"e'">> \o Utf8Text(Tail(Tail(bytes)))
    ELSE <<Head(bytes)>> \o Utf8Text(Tail(bytes))

\* index of the first LF of text, 0 when there is none
RECURSIVE Find(_, _)
Find(text, i) ==
    IF i > Len(text) THEN 0
    ELSE IF text[i] = LF THEN i
    ELSE Find(text, i + 1)

HasLF(text) == Find(text, 1) # 0

\* the inner loop: while "\n" in buffer: line, buffer = buffer.split("\n", 1)
\* (the `continue` on an empty line re-tests the loop condition, no more)
RECURSIVE SplitLoop(_, _)
SplitLoop(buf, ln) ==
    IF HasLF(buf)
    THEN LET i == Find(buf, 1)
         IN  SplitLoop(SubSeq(buf, i + 1, Len(buf)), SubSeq(buf, 1, i - 1))
    ELSE [buffer |-> buf, line |-> ln]

\* the complete records of a text, in order, empty ones included
RECURSIVE Lines(_)
Lines(text) ==
    IF HasLF(text)
    THEN LET i == Find(text, 1)
         IN  <<SubSeq(text, 1, i - 1)>> \o Lines(SubSeq(text, i + 1, Len(text)))
    ELSE <<>>

NonEmpty(ls) == SelectSeq(ls, LAMBDA l : l # <<>>)

\* json.loads(line): "object" with its members, "value" for JSON that is
\* not an object, "error" for text that is not JSON (JSONDecodeError)
JsonLoads(ln) ==
    IF Len(ln) = 3 /\ ln[1] = "{" /\ ln[3] = "}" /\ ln[2] \in Bodies
    THEN [kind |-> "object", cmd |-> Members[ln[2]]]
    ELSE IF ln = <<"[]">>
    THEN [kind |-> "value", cmd |-> <<>>]
    ELSE [kind |-> "error", cmd |-> <<>>]

Has(cmd, key) == key \in DOMAIN cmd

\* cmd.get("action")
GetAction(cmd) == IF Has(cmd, "action") THEN cmd["action"] ELSE "None"

\* --------------------------------------------------------- shared memory
\* shared_memory.SharedMemory(name=...) attaches to an existing segment:
\* FileNotFoundError when there is none, ValueError when it is empty
CanOpen(sg, name) == sg[name] # NoSeg /\ sg[name] # 0

\* attaching registers the name with the resource tracker
Register(reg, name) == reg \cup {name}

\* the attach is left registered with the resource tracker
UnregisterKept(reg, name) == reg

\* resource_tracker.unregister(shm._name, "shared_memory")
Unregister(reg, name) == reg \ {name}

\* the buffer is taken whatever its size
FitsBufferAny(size, count, dims) == TRUE

\* np.ndarray(shape, dtype=np.uint8, buffer=...) accepts the shape when no
\* dimension is negative and the buffer holds at least that many bytes
FitsBuffer(size, count, dims) ==
    /\ \A i \in 1..Len(dims) : dims[i] >= 0
    /\ size >= count

\* np.copyto(mask_out, mask): the mask, shaped like the loaded image,
\* must broadcast to the shape of mask_out
Broadcasts(src, dst) ==
    /\ src[1] = dst[1] \/ src[1] = 1
    /\ src[2] = dst[2] \/ src[2] = 1

\* the loaded test is skipped
NotLoadedSkipped(feat) == FALSE

\* the mask is written as it came, 0 and 1
MaskBytesUnscaled(fg) == {IF b THEN 1 ELSE 0 : b \in fg}

\* (masks[0] * 255).astype(np.uint8): the byte values of a boolean mask
\* whose values are fg
MaskBytes(fg) == {IF b THEN 255 ELSE 0 : b \in fg}

\* the sets of values a boolean mask of n pixels can have
MaskSets(n) == {fg \in SUBSET BOOLEAN : fg # {} /\ Cardinality(fg) <= n}

\* the byte values np.copyto leaves in the n bytes of mask_out
CopiedValues(n) == IF n = 0 THEN {{}} ELSE {MaskBytes(fg) : fg \in MaskSets(n)}

\* no helper is running
NoRun == [prog |-> "none"]

\* not hasattr(predictor, "features") or predictor.features is None
NotLoaded(feat) == feat = None

\* ------------------------------------------------------------ dispatcher
\* the locals and collaborators a handler reads and writes
Session == [w |-> curr_img_w, h |-> curr_img_h, features |-> features,
            shm |-> shm, m_shm |-> m_shm, registered |-> registered]

\* the locals of the serving loop
Locals == [buffer |-> buffer, line |-> line, s |-> Session]

\* what handling one line did: the session after it, the replies written,
\* the segments opened, the adapter calls made, the mask bytes written
Outcome(s, replies, opens, acalls, nbytes) ==
    [s |-> s, out |-> replies, opened |-> opens, calls |-> acalls,
     written |-> nbytes]

\* the error is logged and no reply is written
OnExceptionSilent(s, opens, acalls) == Outcome(s, <<>>, opens, acalls, 0)

\* the error handler also drops the loaded image
OnExceptionReset(s, opens, acalls) ==
    Outcome([s EXCEPT !.features = None], <<"ER">>, opens, acalls, 0)

\* except Exception as e: conn.sendall(b"ER")
OnException(s, opens, acalls) == Outcome(s, <<"ER">>, opens, acalls, 0)

\* the predictor holds the image with its two dimensions exchanged
LoadImageSwapped(feat, h, w, aok, keep) ==
    IF aok THEN <<w, h>> ELSE IF keep THEN feat ELSE None

\* the adapter's load_image: on success the predictor holds the image; a
\* failure leaves the previous features or none, as the adapter chooses
LoadImage(feat, h, w, aok, keep) ==
    IF aok THEN <<h, w>> ELSE IF keep THEN feat ELSE None

\* a failed query goes unnoticed
PredictOkAlways(feat, aok) == TRUE

\* the adapter's query: it fails when it holds no image
PredictOk(feat, aok) == aok /\ feat # None

\* if action == "set_image": ...
SetImage(cmd, s, sg, aok, keep) ==
    IF ~Has(cmd, "width") THEN OnException(s, <<>>, <<>>)
    ELSE LET s1 == [s EXCEPT !.w = cmd["width"]] IN
    IF ~Has(cmd, "height") THEN OnException(s1, <<>>, <<>>)
    ELSE LET s2 == [s1 EXCEPT !.h = cmd["height"]] IN
    IF ~Has(cmd, "shm_name") THEN OnException(s2, <<>>, <<>>)
    ELSE LET name == cmd["shm_name"] IN
    IF ~CanOpen(sg, name) THEN OnException(s2, <<>>, <<>>)
    ELSE LET s3 == [s2 EXCEPT !.shm = name,
                              !.registered = Unregister(Register(@, name), name)] IN
    IF ~FitsBuffer(sg[name], s3.h * s3.w * 4, <<s3.h, s3.w, 4>>)
    THEN OnException(s3, <<name>>, <<>>)
    ELSE LET s4 == [s3 EXCEPT !.features = LoadImage(@, s3.h, s3.w, aok, keep)] IN
    IF ~aok THEN OnException(s4, <<name>>, <<"set_image">>)
    ELSE Outcome([s4 EXCEPT !.shm = Closed], <<"OK">>, <<name>>, <<"set_image">>, 0)

\* elif action == "click": ...
Click(cmd, s, sg, aok) ==
    IF NotLoaded(s.features) THEN Outcome(s, <<"BY">>, <<>>, <<>>, 0)
    ELSE IF ~Has(cmd, "x") \/ ~Has(cmd, "y") THEN OnException(s, <<>>, <<>>)
    ELSE IF ~PredictOk(s.features, aok) THEN OnException(s, <<>>, <<"predict">>)
    ELSE IF ~Has(cmd, "shm_name") THEN OnException(s, <<>>, <<"predict">>)
    ELSE LET name == cmd["shm_name"] IN
    IF ~CanOpen(sg, name) THEN OnException(s, <<>>, <<"predict">>)
    ELSE LET s1 == [s EXCEPT !.m_shm = name,
                             !.registered = Unregister(Register(@, name), name)] IN
    IF ~FitsBuffer(sg[name], s1.h * s1.w, <<s1.h, s1.w>>)
    THEN OnException(s1, <<name>>, <<"predict">>)
    ELSE IF ~Broadcasts(s1.features, <<s1.h, s1.w>>)
    THEN OnException(s1, <<name>>, <<"predict">>)
    ELSE Outcome([s1 EXCEPT !.m_shm = Closed], <<"OK">>, <<name>>, <<"predict">>,
                 s1.h * s1.w)

\* the try block: decode the line and route it by its action; a line that
\* was never assigned raises like any other error, an action that is
\* neither set_image nor click matches no branch
Dispatch(ln, s, sg, aok, keep) ==
    IF ln = Unbound THEN OnException(s, <<>>, <<>>)
    ELSE LET j == JsonLoads(ln) IN
    IF j.kind # "object" THEN OnException(s, <<>>, <<>>)
    ELSE LET action == GetAction(j.cmd) IN
    IF action = "set_image" THEN SetImage(j.cmd, s, sg, aok, keep)
    ELSE IF action = "click" THEN Click(j.cmd, s, sg, aok)
    ELSE Outcome(s, <<>>, <<>>, <<>>, 0)

\* the lines the loop body hands to the try block for one chunk: the try
\* block follows the inner loop, so it runs once, on the current `line`
Dispatched(text, ln) == <<SplitLoop(text, ln).line>>

\* process exit: the resource tracker unlinks what is still registered
AtExit(sg, reg) == [n \in Names |-> IF n \in reg THEN NoSeg ELSE sg[n]]

\* ---------------------------------------------------------------- actions
Init ==
    /\ pc = "serving"
    /\ exit = "none"
    /\ wire = <<>>
    /\ sent = 0
    /\ buffer = <<>>
    /\ line = Unbound
    /\ curr_img_w = 0
    /\ curr_img_h = 0
    /\ features = None
    /\ shm = Closed
    /\ m_shm = Closed
    /\ registered = {}
    /\ \E sc \in Scenarios : menu = sc.menu /\ segs = sc.segs
    /\ out = <<>>
    /\ disp = <<>>
    /\ opened = <<>>
    /\ calls = <<>>
    /\ written = 0
    /\ adapterOk = TRUE
    /\ nReplies = 0
    /\ nRecords = 0
    /\ values = {}
    /\ hin = NoRun
    /\ hout = NoRun

\* the host writes one record and its newline on the connection
HostSend(rec) ==
    /\ pc = "serving"
    /\ sent < MaxSend
    /\ wire' = wire \o rec \o <<LF>>
    /\ sent' = sent + 1
    /\ UNCHANGED <<pc, exit, menu, buffer, line, curr_img_w, curr_img_h,
                   features, shm, m_shm, registered, segs, out, disp, opened,
                   calls, written, adapterOk, nReplies, nRecords, values,
                   hin, hout>>

\* the host stops in the middle of a write: only the first k bytes of what
\* it had in flight reach the daemon
HostTruncate(k) ==
    /\ pc = "serving"
    /\ k \in 1..(Len(wire) - 1)
    /\ wire' = SubSeq(wire, 1, k)
    /\ UNCHANGED <<pc, exit, sent, menu, buffer, line, curr_img_w, curr_img_h,
                   features, shm, m_shm, registered, segs, out, disp, opened,
                   calls, written, adapterOk, nReplies, nRecords, values,
                   hin, hout>>

\* the session over, the host destroys one of its segments
HostUnlink(name) ==
    /\ pc = "exited"
    /\ segs[name] # NoSeg
    /\ segs' = [segs EXCEPT ![name] = NoSeg]
    /\ UNCHANGED <<pc, exit, wire, sent, menu, buffer, line, curr_img_w,
                   curr_img_h, features, shm, m_shm, registered, out, disp,
                   opened, calls, written, adapterOk, nReplies, nRecords,
                   values, hin, hout>>

\* the process ends: its locals and its mappings go with it, and the
\* resource tracker cleans up what is still registered
Leave(why) ==
    /\ pc' = "exited"
    /\ exit' = why
    /\ segs' = AtExit(segs, registered)
    /\ registered' = {}
    /\ buffer' = <<>>
    /\ line' = Unbound
    /\ curr_img_w' = 0
    /\ curr_img_h' = 0
    /\ features' = None
    /\ shm' = Closed
    /\ m_shm' = Closed
    /\ out' = <<>>
    /\ disp' = <<>>
    /\ opened' = <<>>
    /\ calls' = <<>>
    /\ written' = 0
    /\ adapterOk' = TRUE
    /\ values' = {}
    /\ UNCHANGED <<sent, menu, nReplies, nRecords, hin, hout>>

\* one pass of the outer loop over the chunk recv returned: decode it
\* (an error here is raised outside the try block), split the buffer, run
\* the try block on `line`
ServeChunk(loc, chunk, sg, aok, keep) ==
    IF ~Utf8Valid(chunk)
    THEN [crash |-> TRUE, buffer |-> loc.buffer, line |-> loc.line, disp |-> <<>>,
          r |-> Outcome(loc.s, <<>>, <<>>, <<>>, 0)]
    ELSE LET text == loc.buffer \o Utf8Text(chunk)
             f == SplitLoop(text, loc.line)
             ds == Dispatched(text, loc.line)
         IN  [crash |-> FALSE, buffer |-> f.buffer, line |-> f.line, disp |-> ds,
              r |-> Dispatch(ds[1], loc.s, sg, aok, keep)]

Serve(chunk, aok, keep) ==
    LET v == ServeChunk(Locals, chunk, segs, aok, keep)
    IN  IF v.crash
        THEN Leave("crash")
        ELSE /\ buffer' = v.buffer
             /\ line' = v.line
             /\ disp' = v.disp
             /\ curr_img_w' = v.r.s.w
             /\ curr_img_h' = v.r.s.h
             /\ features' = v.r.s.features
             /\ shm' = v.r.s.shm
             /\ m_shm' = v.r.s.m_shm
             /\ registered' = v.r.s.registered
             /\ out' = v.r.out
             /\ opened' = v.r.opened
             /\ calls' = v.r.calls
             /\ written' = v.r.written
             /\ values' \in CopiedValues(v.r.written)
             /\ adapterOk' = aok
             /\ nReplies' = nReplies + Len(v.r.out)
             /\ nRecords' = nRecords
                              + Len(NonEmpty(Lines(buffer \o Utf8Text(chunk))))
             /\ UNCHANGED <<pc, exit, sent, menu, segs, hin, hout>>

\* the adapter's outcome is drawn only where the adapter is called, and
\* what a failed load_image leaves behind only where load_image failed
Drawn(chunk, aok, keep) ==
    LET v == ServeChunk(Locals, chunk, segs, aok, keep)
    IN  /\ aok \/ v.r.calls # <<>>
        /\ keep \/ (~aok /\ v.r.calls = <<"set_image">>)

\* recv returns the first n bytes in flight
Recv(n, aok, keep) ==
    /\ pc = "serving"
    /\ n \in 1..Len(wire)
    /\ Drawn(SubSeq(wire, 1, n), aok, keep)
    /\ wire' = SubSeq(wire, n + 1, Len(wire))
    /\ Serve(SubSeq(wire, 1, n), aok, keep)

\* an empty read is served like any other chunk
RecvEOFServes ==
    /\ pc = "serving"
    /\ wire = <<>>
    /\ Serve(<<>>, TRUE, TRUE)
    /\ UNCHANGED wire

\* recv returns no bytes: the peer closed and nothing is in flight
RecvEOF ==
    /\ pc = "serving"
    /\ wire = <<>>
    /\ Leave("eof")
    /\ UNCHANGED wire

\* recv raises (peer reset): what was in flight is lost
RecvError ==
    /\ pc = "serving"
    /\ wire' = <<>>
    /\ Leave("transport")

HostNext ==
    \/ \E rec \in menu : HostSend(rec)
    \/ \E name \in Names : HostUnlink(name)

DaemonNext ==
    \/ \E n \in 1..Len(wire), aok \in BOOLEAN, keep \in BOOLEAN : Recv(n, aok, keep)
    \/ RecvEOF
    \/ RecvError

Next == HostNext \/ DaemonNext

Spec == Init /\ [][Next]_vars

\* the same daemon with a host that may stop in the middle of a write, for
\* one menu of records
InitShutdown ==
    /\ Init
    /\ menu = {Rec("si11a"), Rec("si21a"), Rec("clb")}
    /\ segs = Segs(8, 2)

NextShutdown ==
    \/ Next
    \/ \E k \in 1..Len(wire) : HostTruncate(k)

SpecShutdown == InitShutdown /\ [][NextShutdown]_vars

\* ------------------------------------------------------------ properties
\* the session state: loaded flag, recorded width, recorded height
Loaded == features # None
SessionState == <<Loaded, curr_img_w, curr_img_h>>
SessionOf(s) == <<s.features # None, s.w, s.h>>

\* in a step that served a chunk and went back to reading: the chunk
Served == pc = "serving" /\ pc' = "serving" /\ Len(wire') < Len(wire)
Chunk == SubSeq(wire, 1, Len(wire) - Len(wire'))

\* C1: a record delivered, with its newline, as two chunks split at any
\* point gives the same dispatched lines, the same replies and the same
\* session state as the record delivered in one chunk, and its first,
\* newline-free chunk dispatches nothing and writes no reply.
C1_SplitDecodesAsWhole ==
    (pc = "serving" /\ buffer = <<>>) =>
        \A rec \in menu, aok \in BOOLEAN, keep \in BOOLEAN :
            \A i \in 1..Len(rec) :
                LET whole == ServeChunk(Locals, rec \o <<LF>>, segs, aok, keep)
                    first == ServeChunk(Locals, SubSeq(rec, 1, i), segs, aok, keep)
                    loc1 == [buffer |-> first.buffer, line |-> first.line,
                             s |-> first.r.s]
                    second == ServeChunk(loc1, SubSeq(rec, i + 1, Len(rec)) \o <<LF>>,
                                         segs, aok, keep)
                IN  /\ first.disp = <<>>
                    /\ first.r.out = <<>>
                    /\ (first.crash \/ second.crash) = whole.crash
                    /\ first.disp \o second.disp = whole.disp
                    /\ first.r.out \o second.r.out = whole.r.out
                    /\ SessionOf(second.r.s) = SessionOf(whole.r.s)

\* C2: a chunk that holds two complete records has both dispatched, the
\* first before the second, and one reply written for each.
C2_TwoRecordsOneChunk ==
    [][(Served /\ buffer = <<>> /\ Len(NonEmpty(Lines(Utf8Text(Chunk)))) = 2)
          => /\ disp' = NonEmpty(Lines(Utf8Text(Chunk)))
             /\ Len(out') = 2]_vars

\* C3: the number of replies written equals the number of complete
\* non-empty records received.
C3_OneReplyPerRecord == nReplies = nRecords

\* the line the step handed to the dispatcher is a JSON object whose
\* action is a
IsAction(ln, a) == JsonLoads(ln).kind = "object" /\ GetAction(JsonLoads(ln).cmd) = a
Cmd(ln) == JsonLoads(ln).cmd
HasAll(ln, keys) == \A k \in keys : Has(Cmd(ln), k)

\* C4: a click handled while no image is loaded is answered BY, opens no
\* segment and makes no adapter call.
C4_ClickBeforeLoad ==
    [][(Served /\ ~Loaded /\ Len(disp') = 1 /\ IsAction(disp'[1], "click"))
          => /\ out' = <<"BY">>
             /\ opened' = <<>>
             /\ calls' = <<>>]_vars

C4_Witness ==
    /\ disp = <<Rec("clb")>>
    /\ out = <<"BY">>
    /\ ~Loaded
    /\ opened = <<>>
    /\ calls = <<>>

\* a set_image line with all its fields, dimensions of at least minDim and
\* an existing segment that is smaller than width*height*4 bytes
SmallSetImage(ln, minDim) ==
    /\ IsAction(ln, "set_image")
    /\ HasAll(ln, {"width", "height", "shm_name"})
    /\ Cmd(ln)["width"] >= minDim
    /\ Cmd(ln)["height"] >= minDim
    /\ segs[Cmd(ln)["shm_name"]] # NoSeg
    /\ segs[Cmd(ln)["shm_name"]] < Cmd(ln)["width"] * Cmd(ln)["height"] * 4

\* C5: a set_image whose segment is smaller than width*height*4 bytes is
\* answered ER and leaves the session state as it was.
C5_SmallSegmentKeepsState ==
    [][(Served /\ Len(disp') = 1 /\ SmallSetImage(disp'[1], 0))
          => /\ out' = <<"ER">>
             /\ SessionState' = SessionState]_vars

\* C6: a well-formed record whose action is neither set_image nor click is
\* answered ER and leaves the session state as it was.
C6_UnknownActionIsError ==
    [][(Served /\ Len(disp') = 1 /\ JsonLoads(disp'[1]).kind = "object"
            /\ ~IsAction(disp'[1], "set_image") /\ ~IsAction(disp'[1], "click"))
          => /\ out' = <<"ER">>
             /\ SessionState' = SessionState]_vars

\* a set_image line with all its fields, dimensions of at least minDim and
\* an existing segment of at least width*height*4 bytes
GoodSetImage(ln, minDim) ==
    /\ IsAction(ln, "set_image")
    /\ HasAll(ln, {"width", "height", "shm_name"})
    /\ Cmd(ln)["width"] >= minDim
    /\ Cmd(ln)["height"] >= minDim
    /\ segs[Cmd(ln)["shm_name"]] # NoSeg
    /\ segs[Cmd(ln)["shm_name"]] >= Cmd(ln)["width"] * Cmd(ln)["height"] * 4

\* a click line with all its fields and an existing segment of exactly
\* width*height bytes for the recorded dimensions
GoodClick(ln) ==
    /\ IsAction(ln, "click")
    /\ HasAll(ln, {"x", "y", "shm_name"})
    /\ segs[Cmd(ln)["shm_name"]] # NoSeg
    /\ segs[Cmd(ln)["shm_name"]] = curr_img_w * curr_img_h

\* with a non-failing adapter, a good set_image is answered OK and leaves
\* the session loaded with its dimensions, and a good click handled right
\* after a set_image that was answered OK is answered OK
SetImageThenClick(minDim) ==
    /\ (Served /\ Len(disp') = 1 /\ GoodSetImage(disp'[1], minDim) /\ adapterOk')
          => /\ out' = <<"OK">>
             /\ Loaded'
             /\ curr_img_w' = Cmd(disp'[1])["width"]
             /\ curr_img_h' = Cmd(disp'[1])["height"]
    /\ (Len(disp) = 1 /\ IsAction(disp[1], "set_image") /\ out = <<"OK">>
            /\ curr_img_w >= minDim /\ curr_img_h >= minDim
            /\ Served /\ Len(disp') = 1 /\ GoodClick(disp'[1]) /\ adapterOk')
          => out' = <<"OK">>

C8_OnlyTransportEndsLoop == exit \in {"none", "eof", "transport"}

C10_SegmentsUntouched ==
    [][/\ (pc' # pc \/ Len(wire') < Len(wire)) => segs' = segs
       /\ Served => \A i \in 1..Len(opened') : segs[opened'[i]] # NoSeg]_vars

C10_Witness ==
    /\ opened # <<>>
    /\ segs[opened[1]] # NoSeg
    /\ registered = {}

\* C11: for a click answered OK the daemon wrote height*width bytes into
\* the mask segment, for the recorded width and height, and every byte
\* written is 0 or 255.
C11_MaskBytes ==
    (Len(disp) = 1 /\ IsAction(disp[1], "click") /\ out = <<"OK">>)
        => /\ written = curr_img_h * curr_img_w
           /\ written <= segs[Cmd(disp[1])["shm_name"]]
           /\ values \subseteq {0, 255}
           /\ (written > 0 => values # {})

C11_Witness ==
    /\ disp = <<Rec("clb")>>
    /\ out = <<"OK">>
    /\ written = 2
    /\ values = {0, 255}

\* C12: while the daemon waits to read, no shared-memory mapping is open.
C12_NoMappingWhileReading ==
    pc = "serving" => (shm = Closed /\ m_shm = Closed)

\* C13: the recorded width and height are those of the most recent
\* set_image answered OK: a set_image answered OK records the submitted
\* ones and no other line, a set_image answered ER included, changes them.
C13_DimsFromLastOk ==
    [][Served =>
          IF Len(disp') = 1 /\ IsAction(disp'[1], "set_image") /\ out' = <<"OK">>
          THEN /\ curr_img_w' = Cmd(disp'[1])["width"]
               /\ curr_img_h' = Cmd(disp'[1])["height"]
          ELSE /\ curr_img_w' = curr_img_w
               /\ curr_img_h' = curr_img_h]_vars

\* C14: an empty record is skipped: no empty line is dispatched, and a
\* chunk that completes only empty records dispatches nothing and writes
\* no reply.
C14_EmptyRecordsSkipped ==
    [][Served =>
          /\ \A i \in 1..Len(disp') : disp'[i] # <<>>
          /\ (Lines(buffer \o Utf8Text(Chunk)) # <<>>
                /\ NonEmpty(Lines(buffer \o Utf8Text(Chunk))) = <<>>)
                => (disp' = <<>> /\ out' = <<>>)]_vars

\* a click line handed to the dispatcher by this step
ClickStep == Served /\ Len(disp') = 1 /\ IsAction(disp'[1], "click")

\* C15 as stated: for a click handled while an image is loaded the adapter
\* is invoked only once the mask segment has been opened.
C15_OpenBeforeQuery ==
    [][(ClickStep /\ Loaded /\ calls' # <<>>) => opened' # <<>>]_vars

\* C15 amended: for a click handled while an image is loaded the query is
\* invoked first, whatever segment the click names, and the mask segment
\* is opened only after the query has succeeded.
C15_QueryBeforeOpen ==
    [][ClickStep =>
          /\ (Loaded /\ HasAll(disp'[1], {"x", "y"})) => calls' = <<"predict">>
          /\ opened' # <<>> => (calls' = <<"predict">> /\ adapterOk')]_vars

C15_Witness ==
    /\ disp = <<Rec("clb")>>
    /\ Loaded
    /\ calls = <<"predict">>
    /\ opened = <<>>
    /\ adapterOk
    /\ out = <<"ER">>

\* C16: a click handled while an image is loaded is answered OK or ER and
\* leaves the loaded image and the recorded dimensions as they were, so a
\* click that follows a failed click is not answered BY.
C16_ClickKeepsSession ==
    [][(ClickStep /\ Loaded)
          => /\ out' \in {<<"OK">>, <<"ER">>}
             /\ features' = features
             /\ SessionState' = SessionState]_vars

C16_Witness ==
    /\ disp = <<Rec("clb")>>
    /\ out = <<"ER">>
    /\ Loaded
    /\ calls = <<"predict">>

\* a set_image line with all its fields whose segment cannot be opened or
\* is smaller than width*height*4 bytes
FailingSetImage(ln) ==
    /\ IsAction(ln, "set_image")
    /\ HasAll(ln, {"width", "height", "shm_name"})
    /\ \/ ~CanOpen(segs, Cmd(ln)["shm_name"])
       \/ segs[Cmd(ln)["shm_name"]] < Cmd(ln)["width"] * Cmd(ln)["height"] * 4

\* C19: a set_image whose segment cannot be opened or is too small makes
\* no adapter call and leaves the loaded image in place, so the click that
\* follows it is not answered BY.
C19_FailedOpenKeepsImage ==
    [][/\ (Served /\ Len(disp') = 1 /\ FailingSetImage(disp'[1]))
             => /\ out' = <<"ER">>
                /\ calls' = <<>>
                /\ features' = features
       /\ (Len(disp) = 1 /\ FailingSetImage(disp[1]) /\ Loaded /\ ClickStep)
             => out' # <<"BY">>]_vars

C19_Witness ==
    /\ disp = <<Rec("si11b")>>
    /\ out = <<"ER">>
    /\ Loaded
    /\ calls = <<>>

\* C17: a zero-byte read is a clean shutdown: the daemon dispatches
\* nothing and writes no reply for it, drops whatever partial record it
\* had buffered, and ends; once ended it serves nothing more.
C17_ZeroReadShutsDown ==
    [][/\ (pc = "serving" /\ wire = <<>> /\ wire' = <<>> /\ exit' # "transport")
             => /\ pc' = "exited"
                /\ exit' = "eof"
                /\ disp' = <<>>
                /\ out' = <<>>
                /\ buffer' = <<>>
                /\ nReplies' = nReplies
                /\ nRecords' = nRecords
       /\ pc = "exited"
             => /\ pc' = "exited"
                /\ nReplies' = nReplies
                /\ nRecords' = nRecords
                /\ wire' = wire]_vars

C17_Witness ==
    /\ pc = "exited"
    /\ exit = "eof"
    /\ sent = 1
    /\ nRecords = 0

\* ----------------------------------------------------- one-shot helpers
\* a path is the sequence of its components and separators
Sep == "/"
DevShm == <<Sep, "dev", Sep, "shm">>

\* identifiers a caller may pass, and the places where a file may exist
\* (a relative path is looked up in the working directory)
Ids == {<<"a">>, <<Sep, "a">>, <<Sep, "tmp", Sep, "a">>}
Places == Ids \cup {DevShm \o <<Sep, "a">>}
NoPath == <<>>

\* shmem_id.lstrip("/")
RECURSIVE Lstrip(_)
Lstrip(p) == IF p # <<>> /\ p[1] = Sep THEN Lstrip(Tail(p)) ELSE p

\* os.path.join(d, p)
Join(d, p) == IF p # <<>> /\ p[1] = Sep THEN p ELSE d \o <<Sep>> \o p

\* the kernel reads a run of separators as one
RECURSIVE Norm(_)
Norm(p) ==
    IF Len(p) < 2 THEN p
    ELSE IF p[1] = Sep /\ p[2] = Sep THEN Norm(Tail(p))
    ELSE <<p[1]>> \o Norm(Tail(p))

\* special/special.py: shm_path = shmem_id; if it does not exist,
\* os.path.join("/dev/shm", shmem_id.lstrip("/"))
ResolveHelper(shmem_id, files) ==
    IF shmem_id \in files THEN shmem_id ELSE Join(DevShm, Lstrip(shmem_id))

\* shared_memory.SharedMemory(name=...): "/" is put in front of the name
\* and shm_open looks it up in the shared-memory namespace; a name with a
\* separator inside is refused
ResolveDaemon(shm_name) ==
    LET n == Lstrip(<<Sep>> \o shm_name)
    IN  IF n = <<>> \/ \E i \in 1..Len(n) : n[i] = Sep
        THEN NoPath
        ELSE Join(DevShm, n)

\* special.py: open(f"/dev/shm/{shmem_id}", "r+b")
ResolveLoader(shmem_id) == Norm(DevShm \o <<Sep>> \o shmem_id)

Openers == {"helper", "set_image", "click", "loader"}

Resolve(prog, id, files) ==
    IF prog = "helper" THEN ResolveHelper(id, files)
    ELSE IF prog = "loader" THEN ResolveLoader(id)
    ELSE ResolveDaemon(id)

\* one of the programs opens the segment `id` names
OpenSegment(prog, id, files) ==
    /\ hin' = [prog |-> prog, id |-> id, files |-> files]
    /\ hout' = [path |-> Resolve(prog, id, files),
                opened |-> Resolve(prog, id, files) \in files]
    /\ UNCHANGED <<pc, exit, wire, sent, menu, buffer, line, curr_img_w,
                   curr_img_h, features, shm, m_shm, registered, segs, out,
                   disp, opened, calls, written, adapterOk, nReplies,
                   nRecords, values>>

\* load_image: a 500 x 500 image of 4-byte pixels
ImageWidth == 500
ImageHeight == 500
DataLen == ImageWidth * ImageHeight * 4

\* sys.argv[3]: text that int() accepts, with its value, or text it refuses
SizeArgs ==
    {[isInt |-> FALSE, v |-> 0]}
        \cup {[isInt |-> TRUE, v |-> n] :
                 n \in {0, DataLen - 1, DataLen, DataLen + 1}}

\* the size of the file /dev/shm/<shmem_id>, NoSeg when there is none
FileSizes == {NoSeg, 0, DataLen - 1, DataLen, DataLen + 1}

\* what went to stdout and into the segment
Ran(records, wrote, dims) == [records |-> records, wrote |-> wrote, dims |-> dims]

\* special.py main, on posix
Loader(argc, arg, fsize) ==
    IF argc < 4 THEN Ran(<<"error">>, 0, <<>>)
    ELSE IF ~arg.isInt THEN Ran(<<>>, 0, <<>>)
    ELSE IF DataLen > arg.v THEN Ran(<<"error">>, 0, <<>>)
    ELSE IF fsize = NoSeg THEN Ran(<<"error">>, 0, <<>>)
    ELSE IF arg.v > fsize THEN Ran(<<"error">>, 0, <<>>)
    ELSE Ran(<<"ok">>, DataLen, <<ImageWidth, ImageHeight>>)

MaxArgc == 5

\* the loader helper is run once with len(sys.argv) = argc
RunLoader(argc, arg, fsize) ==
    /\ hin' = [prog |-> "special", argc |-> argc, arg |-> arg, fsize |-> fsize]
    /\ hout' = Loader(argc, arg, fsize)
    /\ UNCHANGED <<pc, exit, wire, sent, menu, buffer, line, curr_img_w,
                   curr_img_h, features, shm, m_shm, registered, segs, out,
                   disp, opened, calls, written, adapterOk, nReplies,
                   nRecords, values>>

InitHelpers ==
    /\ Init
    /\ menu = {Rec("si11a"), Rec("si21a"), Rec("clb")}
    /\ segs = Segs(8, 2)

NextHelpers ==
    \/ \E prog \in Openers, id \in Ids, files \in SUBSET Places :
           OpenSegment(prog, id, files)
    \/ \E argc \in 1..MaxArgc, arg \in SizeArgs, fsize \in FileSizes :
           RunLoader(argc, arg, fsize)

SpecHelpers == InitHelpers /\ [][NextHelpers]_vars

\* C18: wherever the program opens a segment, the identifier is taken as
\* a filesystem path when a file exists there and is looked up in the
\* shared-memory namespace only otherwise.
C18_PathFirst ==
    hin.prog \in Openers
        => LET shm_path == IF hin.id \in hin.files
                           THEN hin.id
                           ELSE Join(DevShm, Lstrip(hin.id))
           IN  IF shm_path \in hin.files
               THEN hout.opened /\ hout.path = shm_path
               ELSE ~hout.opened

\* C20: the loader helper writes nothing when the pixel data is longer
\* than the declared size, and prints exactly one status record, "ok"
\* with the width and height exactly when all pixel bytes were written.
C20_OneStatusRecord ==
    hin.prog = "special"
        => /\ (hin.arg.isInt /\ DataLen > hin.arg.v) => hout.wrote = 0
           /\ Len(hout.records) = 1
           /\ hout.records[1] \in {"ok", "error"}
           /\ hout.records[1] = "ok"
                 <=> (hout.wrote = DataLen /\ hout.dims = <<ImageWidth, ImageHeight>>)

====
